---------------------------- MODULE Spec2Model ----------------------------
(***************************************************************************)
(* A model of the resume-builder backend (src/backend/app.py).             *)
(*                                                                         *)
(* Every endpoint is a request -> response function over process-wide      *)
(* state that is set once at import time (Config.AI_PROVIDER, ai_client,   *)
(* HTML, RESUME_TEMPLATES).  A request is drawn by Init (or by a Receive   *)
(* action), and one action per handler computes the whole response.        *)
(*                                                                         *)
(* Python values:                                                          *)
(*   str    a sequence of symbols; a symbol stands for a fixed run of      *)
(*          characters (a word, a blank, a comma, a literal of the code),  *)
(*          with its length, lower-case form and substrings tabulated.     *)
(*   None   the one-symbol sequence None, which no str contains; where a   *)
(*          list is expected, NoneList, which is no list of the inputs.    *)
(*   list   a sequence.                                                    *)
(*   number a pair <<p, q>>, q > 0, the exact value p/q: 70 + rate*30 is   *)
(*          a float that int() truncates.                                  *)
(*   dict   a function; a JSON body is a function from its present keys.   *)
(***************************************************************************)
EXTENDS Integers, Sequences, FiniteSets, TLC

VARIABLES
    AI_PROVIDER,      \* Config.AI_PROVIDER
    ai_client,        \* the module-level provider client: "openai", "anthropic" or "None"
    HTML,             \* whether weasyprint's HTML was imported
    RESUME_TEMPLATES, \* the template registry
    request,          \* the request being served: [endpoint, json]
    provider,         \* what the provider does if it is called for this request
    conversion,       \* what write_pdf does if it is called for this request
    response,         \* the response returned for the request (status 0: none yet)
    probe,            \* the handler's locals worth observing, as left at return
    log               \* the <<request json, response>> pairs served before, oldest first

vars == <<AI_PROVIDER, ai_client, HTML, RESUME_TEMPLATES, request, provider,
          conversion, response, probe, log>>

-----------------------------------------------------------------------------
(* Bounds of the model.                                                    *)

MaxResumeWords == 2
MaxJobWords == 4
MaxRoleWords == 2
MaxCurrentSkills == 2
MaxKeywordSymbols == 3
MaxKeywords == 6
MaxLog == 2
MaxBullets == 2
MaxExportSkills == 2
MaxExtractLines == 3

-----------------------------------------------------------------------------
(* Python built-ins.                                                       *)

S(x) == <<x>>

None == S("<None>")

NoneList == <<None>>

Truthy(v) == v # None /\ v # <<>>

Or(v, default) == IF Truthy(v) THEN v ELSE default

Get(data, key, default) == IF key \in DOMAIN data THEN data[key] ELSE default

Min(a, b) == IF a <= b THEN a ELSE b

Whitespace == {" ", "\n"}

Digits == {"0", "1", "2", "3", "4", "5", "6", "7", "8", "9"}

Punctuation == {"@", ".", "-", "+", "(", ")", ",", ";", "|", "_", "%"}

SymLen(c) ==
    CASE c \in Whitespace \cup Digits \cup Punctuation -> 1
      [] c = "x" -> 1
      [] c \in {"ada", "org", "Doe", "www"} -> 3
      [] c \in {"John", "http"} -> 4
      [] c = "Since" -> 5
      [] c \in {"example", "Profile", "profile", "Summary", "summary"} -> 7
      [] c \in {"Engineer", "Profiles", "profiles"} -> 8
      [] c = "Kubernetes" -> 10
      [] c = "Observability" -> 13
      [] c = "Vitae..." -> 199
      [] c = "sql" -> 3
      [] c = "text" -> 4
      [] c = "short" -> 5
      [] c \in {"Python", "python"} -> 6
      [] c \in {"Experience", "experience"} -> 10
      [] c = "Curriculum..." -> 300
      [] OTHER -> 2

SymLower(c) ==
    CASE c = "Python" -> "python"
      [] c = "Experience" -> "experience"
      [] c = "Software" -> "software"
      [] c = "Database" -> "database"
      [] c = "Designer" -> "designer"
      [] c = "Marketing" -> "marketing"
      [] c = "Default" -> "default"
      [] c = "Nurse" -> "nurse"
      [] c = "Profile" -> "profile"
      [] c = "Profiles" -> "profiles"
      [] c = "Summary" -> "summary"
      [] c = "Skills" -> "skills"
      [] OTHER -> c

\* word in c, for a lower-case word of the code and a symbol c
SymContains(c, word) ==
    \/ c = word
    \/ c = "database" /\ word = "data"
    \/ c = "designer" /\ word = "design"
    \/ c = "profiles" /\ word = "profile"

RECURSIVE StrLen(_)
StrLen(s) == IF s = <<>> THEN 0 ELSE SymLen(Head(s)) + StrLen(Tail(s))

Lower(s) == [i \in 1..Len(s) |-> SymLower(s[i])]

\* word in s, for a lower-case word of the code
Contains(s, word) == \E i \in 1..Len(s) : SymContains(s[i], word)

\* str.split(): the maximal runs of symbols that are not whitespace
RECURSIVE SplitFrom(_, _, _)
SplitFrom(s, i, run) ==
    IF i > Len(s)
    THEN IF run = <<>> THEN <<>> ELSE <<run>>
    ELSE IF s[i] \in Whitespace
         THEN (IF run = <<>> THEN <<>> ELSE <<run>>) \o SplitFrom(s, i + 1, <<>>)
         ELSE SplitFrom(s, i + 1, Append(run, s[i]))

Split(s) == SplitFrom(s, 1, <<>>)

ToSet(seq) == {seq[i] : i \in 1..Len(seq)}

\* str.split(sep): the runs between the separators, empty ones kept
RECURSIVE SplitOnFrom(_, _, _, _)
SplitOnFrom(s, sep, i, run) ==
    IF i > Len(s)
    THEN <<run>>
    ELSE IF s[i] = sep
         THEN <<run>> \o SplitOnFrom(s, sep, i + 1, <<>>)
         ELSE SplitOnFrom(s, sep, i + 1, Append(run, s[i]))

SplitOn(s, sep) == SplitOnFrom(s, sep, 1, <<>>)

\* str.strip(): without the whitespace at both ends
RECURSIVE Strip(_)
Strip(s) ==
    IF s = <<>> THEN s
    ELSE IF Head(s) \in Whitespace THEN Strip(Tail(s))
    ELSE IF s[Len(s)] \in Whitespace THEN Strip(SubSeq(s, 1, Len(s) - 1))
    ELSE s

\* seq[:n]
Take(seq, n) == SubSeq(seq, 1, Min(n, Len(seq)))

\* numbers
Num(n) == <<n, 1>>

RatAdd(a, b) == <<a[1] * b[2] + b[1] * a[2], a[2] * b[2]>>

RatSub(a, b) == <<a[1] * b[2] - b[1] * a[2], a[2] * b[2]>>

RatMul(a, b) == <<a[1] * b[1], a[2] * b[2]>>

RatLess(a, b) == a[1] * b[2] < b[1] * a[2]

RatMax(a, b) == IF RatLess(a, b) THEN b ELSE a

RatMin(a, b) == IF RatLess(b, a) THEN b ELSE a

IsInteger(a) == a[1] % a[2] = 0

\* int(x) truncates toward zero
PyIntFloat(a) == a

PyInt(a) == IF a[1] >= 0 THEN Num(a[1] \div a[2]) ELSE Num(-((-a[1]) \div a[2]))

\* re: a pattern is its items in order, each a character class repeated;
\* a symbol of letters is matched whole, and min and max count characters
IsDigit(c) == c \in Digits

IsAlpha(c) == c \notin Whitespace \cup Digits \cup Punctuation

Class(alpha, digit, chars) == [alpha |-> alpha, digit |-> digit, chars |-> chars]

InClass(c, class) ==
    \/ class.alpha /\ IsAlpha(c)
    \/ class.digit /\ IsDigit(c)
    \/ c \in class.chars

Between(class, min, max) == [class |-> class, min |-> min, max |-> max, unbounded |-> FALSE]

AtLeast(class, min) == [class |-> class, min |-> min, max |-> min, unbounded |-> TRUE]

Optional(class) == Between(class, 0, 1)

\* the symbols of s from pos on that are in the class, up to the first that is not
RECURSIVE RunLength(_, _, _)
RunLength(s, pos, class) ==
    IF pos > Len(s) THEN 0
    ELSE IF InClass(s[pos], class) THEN 1 + RunLength(s, pos + 1, class)
    ELSE 0

\* where the match of the items k.. of pat that starts at pos ends (0: no
\* match): each item takes the most it can and gives back one at a time
RECURSIVE MatchFrom(_, _, _, _)
RECURSIVE MatchCount(_, _, _, _, _)
MatchCount(pat, k, s, pos, n) ==
    IF n < 0 THEN 0
    ELSE LET chars == StrLen(SubSeq(s, pos, pos + n - 1))
             fits == chars >= pat[k].min /\ (pat[k].unbounded \/ chars <= pat[k].max)
             end == IF fits THEN MatchFrom(pat, k + 1, s, pos + n) ELSE 0
         IN  IF end # 0 THEN end ELSE MatchCount(pat, k, s, pos, n - 1)

MatchFrom(pat, k, s, pos) ==
    IF k > Len(pat) THEN pos
    ELSE MatchCount(pat, k, s, pos, RunLength(s, pos, pat[k].class))

\* re.search(pat, s).group(), or None: the match at the leftmost start
re_search(pat, s) ==
    LET starts == {pos \in 1..Len(s) : MatchFrom(pat, 1, s, pos) # 0}
    IN  IF starts = {} THEN None
        ELSE LET start == CHOOSE pos \in starts : \A q \in starts : pos <= q
             IN  SubSeq(s, start, MatchFrom(pat, 1, s, start) - 1)

\* sep.join(strs)
RECURSIVE JoinWith(_, _)
JoinWith(strs, sep) ==
    IF strs = <<>> THEN <<>>
    ELSE IF Len(strs) = 1 THEN Head(strs)
    ELSE Head(strs) \o <<sep>> \o JoinWith(Tail(strs), sep)

\* the first k characters of a symbol that is cut
SymPrefix(c, k) ==
    CASE c = "short" /\ k = 2 -> "sh"
      [] c = "text" /\ k = 2 -> "te"
      [] OTHER -> "<cut>"

\* s[:n], n counting characters
RECURSIVE Slice(_, _)
Slice(s, n) ==
    IF s = <<>> \/ n <= 0 THEN <<>>
    ELSE IF SymLen(Head(s)) <= n
         THEN <<Head(s)>> \o Slice(Tail(s), n - SymLen(Head(s)))
         ELSE <<SymPrefix(Head(s), n)>>

\* re.split on a class of one character
RECURSIVE SplitOnAnyFrom(_, _, _, _)
SplitOnAnyFrom(s, seps, i, run) ==
    IF i > Len(s)
    THEN <<run>>
    ELSE IF s[i] \in seps
         THEN <<run>> \o SplitOnAnyFrom(s, seps, i + 1, <<>>)
         ELSE SplitOnAnyFrom(s, seps, i + 1, Append(run, s[i]))

SplitOnAny(s, seps) == SplitOnAnyFrom(s, seps, 1, <<>>)

\* [f(x) for x in seq]
Map(seq, f(_)) == [i \in 1..Len(seq) |-> f(seq[i])]

-----------------------------------------------------------------------------
(* Responses.                                                              *)

NoResponse == [status |-> 0]

NoProbe == [none |-> TRUE]

Error(code, message) == [status |-> code, error |-> S(message)]

-----------------------------------------------------------------------------
(* Process start: lines 62-80 and 33-37 decide the process-wide state.     *)

Providers == {"openai", "anthropic", "mock"}

\* lines 268-329: a template is its text in order: literal text, {{ name }},
\* {% for x in name %}before{{ x }}after{% endfor %}, {{ name | join(sep) }}
Text(t) == [kind |-> "text", text |-> t]

Var(n) == [kind |-> "var", name |-> n]

For(n, before, after) == [kind |-> "for", name |-> n, before |-> before, after |-> after]

Join(n, sep) == [kind |-> "join", name |-> n, sep |-> sep]

modern ==
    <<Text("<html><head><style>body { font-family: 'Segoe UI' ... }</style></head><body><h1>"),
      Var("name"), Text("</h1><div>"),
      Var("email"), Text(" | "), Var("phone"), Text(" | "), Var("location"),
      Text("</div><div class=section><h2>Professional Summary</h2><p>"),
      Var("summary"),
      Text("</p></div><div class=section><h2>Experience</h2><ul>"),
      For("experience_bullets", "<li>", "</li>"),
      Text("</ul></div><div class=section><h2>Skills</h2><p>"),
      Join("skills", " (bullet) "),
      Text("</p></div></body></html>")>>

classic ==
    <<Text("<html><head><style>body { font-family: Georgia ... }</style></head><body><h1>"),
      Var("name"), Text("</h1><div style=text-align:center>"),
      Var("email"), Text(" (bullet) "), Var("phone"),
      Text("</div><h2>Summary</h2><p>"),
      Var("summary"),
      Text("</p><h2>Experience</h2><ul>"),
      For("experience_bullets", "<li>", "</li>"),
      Text("</ul><h2>Skills</h2><p>"),
      Join("skills", ", "),
      Text("</p></body></html>")>>

Templates == (S("modern") :> modern) @@ (S("classic") :> classic)

\* lines 62-80: a client only for the provider AI_PROVIDER names, and only
\* with its library and its key
ProviderStart ==
    /\ AI_PROVIDER \in Providers
    /\ ai_client \in {"None"} \cup ({AI_PROVIDER} \cap {"openai", "anthropic"})
    /\ RESUME_TEMPLATES = Templates

\* lines 33-37
ProcessStart ==
    /\ ProviderStart
    /\ HTML \in BOOLEAN

NoProviderStart ==
    /\ AI_PROVIDER = "mock"
    /\ ai_client = "None"
    /\ HTML = FALSE
    /\ RESUME_TEMPLATES = Templates

Idle ==
    /\ response = NoResponse
    /\ probe = NoProbe
    /\ log = <<>>

NoProviderCall == [outcome |-> "not called"]

Reply(r, p) ==
    /\ response' = r
    /\ probe' = p
    /\ UNCHANGED <<AI_PROVIDER, ai_client, HTML, RESUME_TEMPLATES, request, provider,
                   conversion, log>>

SeqsUpTo(set, n) == UNION {[1..k -> set] : k \in 0..n}

\* the words of ws, one blank between two
RECURSIVE Sentence(_)
Sentence(ws) ==
    IF Len(ws) <= 1 THEN ws ELSE <<Head(ws), " ">> \o Sentence(Tail(ws))

-----------------------------------------------------------------------------
(* POST /api/analyze/ats                                                   *)

\* lines 533-537: the score and the match rate after the job description
MatchRate(resume_text, job_description) ==
    LET job_words == ToSet(Split(Lower(job_description)))
        resume_words == ToSet(Split(Lower(resume_text)))
    IN  IF job_words # {}
        THEN <<Cardinality(job_words \cap resume_words), Cardinality(job_words)>>
        ELSE Num(0)

JobScoreFrom75(match_rate) == PyInt(RatAdd(Num(75), RatMul(match_rate, Num(30))))

JobScore(match_rate) == PyInt(RatAdd(Num(70), RatMul(match_rate, Num(30))))

\* lines 542-544
TooShort(resume_text) == StrLen(resume_text) < 300

\* lines 546-548
NoHeadersSkipped(resume_text) == FALSE

NoHeaders(resume_text) ==
    ~ \E word \in {"experience", "education", "skills"} :
          Contains(Lower(resume_text), word)

\* line 551
ClampedScore(score) == RatMax(Num(0), RatMin(Num(100), score))

\* line 553
AtsStatusStrict(score) == IF RatLess(Num(70), score) THEN "good" ELSE "needs_improvement"

AtsStatus(score) == IF ~RatLess(score, Num(70)) THEN "good" ELSE "needs_improvement"

analyze_ats(data) ==
    LET resume_text == Get(data, "text", <<>>)
        job_description == Get(data, "job_description", <<>>)
    IN  IF resume_text = None
        THEN \* .lower() or len() of None raises: lines 556-558
             [response |-> Error(500, "Failed to analyze resume"), probe |-> NoProbe]
        ELSE
        LET match_rate == MatchRate(resume_text, job_description)
            score_537 == IF Truthy(job_description) THEN JobScore(match_rate) ELSE Num(75)
            keywords == IF Truthy(job_description) /\ RatLess(match_rate, <<3, 10>>)
                        THEN <<S("Add more keywords from the job description")>>
                        ELSE <<>>
            short == IF TooShort(resume_text)
                     THEN <<S("Resume seems too short. Add more detail.")>>
                     ELSE <<>>
            score_544 == IF TooShort(resume_text) THEN RatSub(score_537, Num(10)) ELSE score_537
            headers == IF NoHeaders(resume_text)
                       THEN <<S("Include standard section headers")>>
                       ELSE <<>>
            score == IF NoHeaders(resume_text) THEN RatSub(score_544, Num(15)) ELSE score_544
        IN  [response |->
                [status |-> 200,
                 json |-> [score |-> ClampedScore(score),
                           suggestions |-> keywords \o short \o headers,
                           status |-> AtsStatus(score)]],
             probe |-> [score_537 |-> score_537, score |-> score]]

AnalyzeAts ==
    /\ request.endpoint = "/api/analyze/ats"
    /\ response = NoResponse
    /\ LET r == analyze_ats(request.json) IN Reply(r.response, r.probe)

ResumeVocabulary == {"short", "text", "Experience", "Python", "Curriculum..."}

JobVocabulary == {"short", "experience", "python", "sql"}

ResumeTexts ==
    {None} \cup {Sentence(ws) : ws \in SeqsUpTo(ResumeVocabulary, MaxResumeWords)}

JobDescriptions ==
    {None, S(" ")} \cup {Sentence(ws) : ws \in SeqsUpTo(JobVocabulary, MaxJobWords)}

AtsBodies ==
    {[text |-> t, job_description |-> j] : t \in ResumeTexts, j \in JobDescriptions}
        \cup {[text |-> t] : t \in ResumeTexts}
        \cup {[job_description |-> j] : j \in JobDescriptions}

InitAts ==
    /\ NoProviderStart
    /\ Idle
    /\ conversion = "not called"
    /\ provider = NoProviderCall
    /\ request \in {[endpoint |-> "/api/analyze/ats", json |-> b] : b \in AtsBodies}

NextAts == AnalyzeAts

SpecAts == InitAts /\ [][NextAts]_vars

-----------------------------------------------------------------------------
(* Claims about POST /api/analyze/ats, checked under SpecAts.              *)

AtsAnswered ==
    /\ request.endpoint = "/api/analyze/ats"
    /\ response.status = 200

AtsText == Get(request.json, "text", <<>>)

AtsJob == Get(request.json, "job_description", <<>>)

ShortTextBody == [text |-> <<"short", " ", "text">>, job_description |-> <<>>]

LengthSuggestion == S("Resume seems too short. Add more detail.")

HeaderSuggestion == S("Include standard section headers")

\* C1 as stated: "short text" with an empty job description scores 65, with
\* a suggestion about the length and status needs_improvement.
C1_ShortTextScores65 ==
    (request.json = ShortTextBody /\ response.status # 0) =>
        /\ response.status = 200
        /\ response.json.score = Num(65)
        /\ LengthSuggestion \in ToSet(response.json.suggestions)
        /\ response.json.status = "needs_improvement"

\* C1 amended: "short text" with an empty job description scores 50 (75 - 10
\* for the length - 15 for the missing section headers), with the length and
\* the section-header suggestions, and status needs_improvement.
C1_ShortTextScores50 ==
    (request.json = ShortTextBody /\ response.status # 0) =>
        /\ response.status = 200
        /\ response.json.score = Num(50)
        /\ response.json.suggestions = <<LengthSuggestion, HeaderSuggestion>>
        /\ response.json.status = "needs_improvement"

C1_Witness == request.json = ShortTextBody /\ response.status = 200

\* C2: the returned status is "good" exactly when the returned (clamped)
\* score is at least 70.
C2_GoodIffScoreAtLeast70 ==
    AtsAnswered =>
        /\ response.json.status \in {"good", "needs_improvement"}
        /\ response.json.status = "good" <=> ~RatLess(response.json.score, Num(70))

C2_Witness ==
    /\ AtsAnswered
    /\ response.json.score = Num(70)
    /\ response.json.status = "good"

\* C3: the returned score is an integer in 0..100, whatever the resume text
\* and the job description.
C3_ScoreIsIntegerIn0To100 ==
    AtsAnswered =>
        /\ IsInteger(response.json.score)
        /\ ~RatLess(response.json.score, Num(0))
        /\ ~RatLess(Num(100), response.json.score)

C3_Witness ==
    /\ AtsAnswered
    /\ AtsText = <<>>
    /\ AtsJob = S(" ")
    /\ response.json.score = Num(45)

\* the overlap of C4: |jobWords & resumeWords| / |jobWords|, 0 for no job words
Overlap(text, job) ==
    LET jobWords == ToSet(Split(Lower(job)))
        resumeWords == ToSet(Split(Lower(text)))
    IN  IF jobWords = {} THEN Num(0)
        ELSE <<Cardinality(jobWords \cap resumeWords), Cardinality(jobWords)>>

Floor(a) == a[1] \div a[2]

\* round(): to the nearest integer, a half to the even one
Round(a) ==
    LET twice == 2 * (a[1] % a[2])
    IN  IF twice < a[2] THEN Floor(a)
        ELSE IF twice > a[2] THEN Floor(a) + 1
        ELSE IF Floor(a) % 2 = 0 THEN Floor(a) ELSE Floor(a) + 1

Unrounded(text, job) == RatAdd(Num(70), RatMul(Overlap(text, job), Num(30)))

\* C4 as stated: with a non-empty job description the score before the
\* deductions is round(70 + overlap*30).
C4_ScoreIsRounded ==
    (AtsAnswered /\ Truthy(AtsJob)) =>
        probe.score_537 = Num(Round(Unrounded(AtsText, AtsJob)))

\* C4 amended: with a non-empty job description the score before the
\* deductions is 70 + overlap*30 truncated to an integer (rounded down).
C4_ScoreIsTruncated ==
    (AtsAnswered /\ Truthy(AtsJob)) =>
        probe.score_537 = Num(Floor(Unrounded(AtsText, AtsJob)))

\* a ratio of 1/4: 70 + 7.5 is 77 in the code
C4_Witness ==
    /\ AtsAnswered
    /\ Truthy(AtsJob)
    /\ Overlap(AtsText, AtsJob) = <<1, 4>>
    /\ probe.score_537 = Num(77)

-----------------------------------------------------------------------------
(* POST /api/suggestions/skills                                            *)

\* lines 497-503; a dict keeps the order in which its keys were written
skill_keys == <<"software", "data", "design", "marketing", "default">>

skill_map(key) ==
    CASE key = "software" ->
             <<S("Python"), S("JavaScript"), S("React"), S("Node.js"), S("Git"),
               S("Docker"), S("AWS")>>
      [] key = "data" ->
             <<S("Python"), S("SQL"), S("Pandas"), S("NumPy"), S("Tableau"),
               S("Machine Learning")>>
      [] key = "design" ->
             <<S("Figma"), S("Adobe Creative Suite"), S("UI/UX"), S("Wireframing")>>
      [] key = "marketing" ->
             <<S("SEO"), S("Google Analytics"), S("Content Strategy"), S("Social Media")>>
      [] key = "default" ->
             <<S("Communication"), S("Problem Solving"), S("Leadership"), S("Teamwork")>>

\* lines 505-511: the list of the first key found in the lower-cased role
SuggestedFor(role) ==
    LET role_lower == Lower(role)
        hits == {i \in 1..Len(skill_keys) : Contains(role_lower, skill_keys[i])}
    IN  IF hits = {}
        THEN skill_map("default")
        ELSE skill_map(skill_keys[CHOOSE i \in hits : \A j \in hits : i <= j])

\* line 513
NotPresentUnfiltered(suggested, current_skills) == suggested

NotPresent(suggested, current_skills) ==
    SelectSeq(suggested, LAMBDA s : s \notin ToSet(current_skills))

suggest_skills(data) ==
    LET role == Get(data, "role", <<>>)
        current_skills == Get(data, "current_skills", <<>>)
    IN  IF role = None \/ current_skills = NoneList
        THEN \* None.lower() or "in None" raises: lines 517-519
             Error(500, "Failed to suggest skills")
        ELSE [status |-> 200,
              json |-> [suggestions |->
                            Take(NotPresent(SuggestedFor(role), current_skills), 10)]]

SuggestSkills ==
    /\ request.endpoint = "/api/suggestions/skills"
    /\ response = NoResponse
    /\ Reply(suggest_skills(request.json), NoProbe)

RoleVocabulary ==
    {"Software", "Engineer", "Database", "Designer", "Marketing", "Default", "Nurse"}

SkillVocabulary ==
    {S("Python"), S("python"), S("SQL"), S("Figma"), S("Teamwork"), S("Docker")}

Roles == {None} \cup {Sentence(ws) : ws \in SeqsUpTo(RoleVocabulary, MaxRoleWords)}

CurrentSkills == {NoneList} \cup SeqsUpTo(SkillVocabulary, MaxCurrentSkills)

SkillsBodies ==
    {[role |-> r, current_skills |-> c] : r \in Roles, c \in CurrentSkills}
        \cup {[role |-> r] : r \in Roles}
        \cup {[current_skills |-> c] : c \in CurrentSkills}

InitSkills ==
    /\ NoProviderStart
    /\ Idle
    /\ conversion = "not called"
    /\ provider = NoProviderCall
    /\ request \in {[endpoint |-> "/api/suggestions/skills", json |-> b] : b \in SkillsBodies}

NextSkills == SuggestSkills

SpecSkills == InitSkills /\ [][NextSkills]_vars

-----------------------------------------------------------------------------
(* Claims about POST /api/suggestions/skills, checked under SpecSkills.    *)

SkillsAnswered ==
    /\ request.endpoint = "/api/suggestions/skills"
    /\ response.status = 200

SkillsRole == Get(request.json, "role", <<>>)

SkillsCurrent == Get(request.json, "current_skills", <<>>)

\* C5: no suggested skill is one of current_skills, and at most 10 skills
\* are suggested.
C5_SuggestionsAreNewAndAtMost10 ==
    SkillsAnswered =>
        /\ \A i \in 1..Len(response.json.suggestions) :
               \A j \in 1..Len(SkillsCurrent) :
                   response.json.suggestions[i] # SkillsCurrent[j]
        /\ Len(response.json.suggestions) <= 10

\* "Database Designer" with Python and SQL already listed: the data list
\* without them
C5_Witness ==
    /\ SkillsAnswered
    /\ SkillsRole = <<"Database", " ", "Designer">>
    /\ SkillsCurrent = <<S("SQL"), S("Python")>>
    /\ response.json.suggestions =
           <<S("Pandas"), S("NumPy"), S("Tableau"), S("Machine Learning")>>

-----------------------------------------------------------------------------
(* POST /api/generate                                                      *)

\* A call returns a value or raises.
Return(v) == [raised |-> FALSE, value |-> v]

Raise == [raised |-> TRUE]

\* lines 85-90
ResumeContent(summary, experience_bullets, skills, achievements) ==
    [summary |-> summary, experience_bullets |-> experience_bullets,
     skills |-> skills, achievements |-> achievements]

\* lines 188-233: templates[key] for the four keys
templates(key, role, req) ==
    CASE key = S("junior") ->
        [summary |->
            S("Motivated ") \o role \o S(" with strong foundation in ")
              \o Or(req.keywords, S("modern technologies")) \o S(". ")
              \o S("Eager to contribute to innovative projects and grow expertise in a collaborative environment."),
         bullets |->
            <<S("Developed and maintained features using ")
                \o Or(req.keywords, S("industry-standard tools")),
              S("Collaborated with senior developers to implement best practices"),
              S("Participated in code reviews and technical documentation"),
              S("Assisted in debugging and resolving technical issues"),
              S("Completed all assigned tasks on schedule")>>]
      [] key = S("mid") ->
        [summary |->
            S("Experienced ") \o role \o S(" with proven track record in ")
              \o Or(req.industry, S("technology")) \o S(". ")
              \o S("Skilled in ") \o Or(req.keywords, S("full-stack development"))
              \o S(" with focus on quality and performance."),
         bullets |->
            <<S("Led development of key features using ")
                \o Or(req.keywords, S("modern tech stack")),
              S("Mentored junior developers and conducted code reviews"),
              S("Architected scalable solutions handling 10K+ users"),
              S("Collaborated with product managers on requirements"),
              S("Improved deployment efficiency by 40%")>>]
      [] key = S("senior") ->
        [summary |->
            S("Senior ") \o role \o S(" with extensive expertise in ")
              \o Or(req.keywords, S("enterprise solutions")) \o S(". ")
              \o S("Proven leader in driving technical innovation and delivering complex projects."),
         bullets |->
            <<S("Architected enterprise solutions using ")
                \o Or(req.keywords, S("cloud technologies")),
              S("Led team of 8+ developers delivering critical projects"),
              S("Established coding standards adopted organization-wide"),
              S("Reduced operational costs by 35% through optimization"),
              S("Presented strategies to C-level executives")>>]
      [] key = S("executive") ->
        [summary |->
            S("Visionary technology executive and ") \o role
              \o S(" with track record of transformation. ")
              \o S("Expert in ") \o Or(req.keywords, S("digital innovation"))
              \o S(" and team building."),
         bullets |->
            <<S("Directed technology strategy driving 50% efficiency increase"),
              S("Built engineering organization from 10 to 100+ professionals"),
              S("Secured $10M+ in cost savings through optimization"),
              S("Launched products generating $25M+ revenue"),
              S("Established strategic technology partnerships")>>]

template_keys == {S("junior"), S("mid"), S("senior"), S("executive")}

\* line 235: templates.get(level, templates["mid"])
TemplateKeyOrJunior(level) == IF level \in template_keys THEN level ELSE S("junior")

TemplateKey(level) == IF level \in template_keys THEN level ELSE S("mid")

\* lines 237-238
base_skills ==
    <<S("Python"), S("JavaScript"), S("React"), S("Node.js"), S("AWS"), S("Docker"),
      S("Git"), S("Agile"), S("Leadership"), S("Communication")>>

\* lines 237-242
MockSkillsUnstripped(keywords) ==
    IF Truthy(keywords)
    THEN Take(SplitOn(keywords, ","), 5) \o Take(base_skills, 5)
    ELSE base_skills

MockSkills(keywords) ==
    IF Truthy(keywords)
    THEN LET pieces == SplitOn(keywords, ",")
             custom_skills == Take([i \in 1..Len(pieces) |-> Strip(pieces[i])], 5)
         IN  custom_skills \o Take(base_skills, 5)
    ELSE base_skills

\* lines 244-248
MockAchievements(level) ==
    <<S("Increased team productivity by 25%"),
      <<"Delivered ", IF level = S("junior") THEN "5" ELSE "15", "+ successful projects">>,
      S("Received excellence award for outstanding performance")>>

\* what a module-level skills list, rebound by each call, would give
generate_mock_content_shared(req) ==
    LET role == Or(req.role, S("Professional"))
        level == req.experience_level
        template == templates(TemplateKey(level), role, req)
        skills == IF log = <<>> \/ log[Len(log)].response.status # 200
                  THEN MockSkills(req.keywords)
                  ELSE IF Truthy(req.keywords)
                       THEN MockSkills(req.keywords)
                       ELSE log[Len(log)].response.json.skills
    IN  ResumeContent(template.summary, template.bullets, skills, MockAchievements(level))

\* lines 183-255
generate_mock_content(req) ==
    LET role == Or(req.role, S("Professional"))
        level == req.experience_level
        template == templates(TemplateKey(level), role, req)
    IN  ResumeContent(template.summary, template.bullets,
                      MockSkills(req.keywords), MockAchievements(level))

\* lines 126-146 and 164-180: the provider call, json.loads and content.get
\* run inside try; "except Exception" answers with the mock content
ProviderCallUncaught(req) ==
    IF provider.outcome = "object"
    THEN Return(ResumeContent(Get(provider.body, "summary", <<>>),
                              Get(provider.body, "bullets", <<>>),
                              Get(provider.body, "skills", <<>>),
                              Get(provider.body, "achievements", <<>>)))
    ELSE IF provider.outcome \in {"raises", "malformed json"}
         THEN Return(generate_mock_content(req))
         ELSE Raise

ProviderCall(req) ==
    IF provider.outcome = "object"
    THEN Return(ResumeContent(Get(provider.body, "summary", <<>>),
                              Get(provider.body, "bullets", <<>>),
                              Get(provider.body, "skills", <<>>),
                              Get(provider.body, "achievements", <<>>)))
    ELSE \* create() raises, json.loads raises, or .get of a non-dict raises
         Return(generate_mock_content(req))

\* lines 107-146
generate_with_openai(req) ==
    IF ai_client = "None"
    THEN [calls |-> 0, result |-> Return(generate_mock_content(req))]
    ELSE [calls |-> 1, result |-> ProviderCall(req)]

\* lines 149-180
generate_with_anthropic(req) ==
    IF ai_client = "None"
    THEN [calls |-> 0, result |-> Return(generate_mock_content(req))]
    ELSE [calls |-> 1, result |-> ProviderCall(req)]

\* lines 257-265
generate(req) ==
    IF AI_PROVIDER = "openai" THEN generate_with_openai(req)
    ELSE IF AI_PROVIDER = "anthropic" THEN generate_with_anthropic(req)
    ELSE [calls |-> 0, result |-> Return(generate_mock_content(req))]

\* lines 414-421
ResumeRequest(data) ==
    [role |-> Get(data, "role", None),
     company |-> Get(data, "company", None),
     keywords |-> Get(data, "keywords", None),
     experience_level |-> Get(data, "experience_level", S("mid")),
     industry |-> Get(data, "industry", None),
     tone |-> Get(data, "tone", S("professional"))]

\* line 409: the body null arrives as None, and any body that is no JSON
\* object arrives as a value without get; the model tags such a body
JsonNull == [json |-> "null"]

IsObject(data) == "json" \notin DOMAIN data

\* lines 406-429
generate_content(data) ==
    IF ~IsObject(data)
    THEN [response |-> Error(500, "Failed to generate content"),
          probe |-> [provider_calls |-> 0, generated |-> FALSE]]
    ELSE IF ~Truthy(Get(data, "role", None))
    THEN [response |-> Error(400, "Role is required"),
          probe |-> [provider_calls |-> 0, generated |-> FALSE]]
    ELSE LET g == generate(ResumeRequest(data))
         IN  IF g.result.raised
             THEN [response |-> Error(500, "Failed to generate content"),
                   probe |-> [provider_calls |-> g.calls, generated |-> TRUE]]
             ELSE [response |-> [status |-> 200, json |-> g.result.value],
                   probe |-> [provider_calls |-> g.calls, generated |-> TRUE]]

GenerateContent ==
    /\ request.endpoint = "/api/generate"
    /\ response = NoResponse
    /\ LET r == generate_content(request.json) IN Reply(r.response, r.probe)

\* What the provider does when it is called: create() raises, or it answers
\* with text that is no JSON, JSON that is no object, or a JSON object.
ProviderBodies ==
    {[summary |-> S("Provider summary"), bullets |-> <<S("Provider bullet")>>,
      skills |-> <<S("Provider skill")>>, achievements |-> <<S("Provider achievement")>>],
     [summary |-> S("Provider summary")]}

ProviderOutcomes ==
    {[outcome |-> "raises"], [outcome |-> "malformed json"], [outcome |-> "not an object"]}
        \cup {[outcome |-> "object", body |-> b] : b \in ProviderBodies}

KeywordNames == <<"Go", "Docker", "SQL", "Rust", "Java", "Kafka", "Redis", "Linux">>

\* n keywords, a comma between two
RECURSIVE CommaList(_)
CommaList(n) ==
    IF n = 1 THEN S(KeywordNames[1])
    ELSE CommaList(n - 1) \o <<",", KeywordNames[((n - 1) % Len(KeywordNames)) + 1]>>

KeywordStrings ==
    {None} \cup SeqsUpTo({"Go", "Docker", ",", " "}, MaxKeywordSymbols)
           \cup {CommaList(n) : n \in 1..MaxKeywords}

GenerateRoles == {None, <<>>, S("Software Engineer")}

GenerateBodies ==
    {[role |-> r, keywords |-> k, experience_level |-> l] :
        r \in GenerateRoles, k \in KeywordStrings, l \in {S("junior"), S("lead")}}
      \cup {[role |-> r, keywords |-> k] : r \in GenerateRoles, k \in KeywordStrings}
      \cup {[keywords |-> k] : k \in KeywordStrings}
      \cup {[role |-> r] : r \in GenerateRoles}
      \cup {JsonNull}

InitGenerate ==
    /\ ProviderStart
    /\ HTML = FALSE
    /\ Idle
    /\ conversion = "not called"
    /\ provider \in IF ai_client = "None" THEN {NoProviderCall} ELSE ProviderOutcomes
    /\ request \in {[endpoint |-> "/api/generate", json |-> b] : b \in GenerateBodies}

NextGenerate == GenerateContent

SpecGenerate == InitGenerate /\ [][NextGenerate]_vars

\* Requests served one after the other by a process with no provider client.
Window(l) == IF Len(l) > MaxLog THEN Tail(l) ELSE l

SeqLevels ==
    {S("junior"), S("mid"), S("senior"), S("executive"), S("lead"), None}

SeqBodies ==
    {[role |-> S("Software Engineer"), keywords |-> k, experience_level |-> l] :
        k \in {None, <<"Go", ",", "Docker">>}, l \in SeqLevels}
      \cup {[role |-> S("Software Engineer")],
            [role |-> S("Software Engineer"), industry |-> S("fintech")]}

Receive ==
    /\ response # NoResponse
    /\ log' = Window(Append(log, [json |-> request.json, response |-> response]))
    /\ request' \in {[endpoint |-> "/api/generate", json |-> b] : b \in SeqBodies}
    /\ response' = NoResponse
    /\ probe' = NoProbe
    /\ UNCHANGED <<AI_PROVIDER, ai_client, HTML, RESUME_TEMPLATES, provider, conversion>>

InitGenerateSeq ==
    /\ ProviderStart
    /\ ai_client = "None"
    /\ HTML = FALSE
    /\ Idle
    /\ conversion = "not called"
    /\ provider = NoProviderCall
    /\ request \in {[endpoint |-> "/api/generate", json |-> b] : b \in SeqBodies}

NextGenerateSeq == GenerateContent \/ Receive

SpecGenerateSeq == InitGenerateSeq /\ [][NextGenerateSeq]_vars

-----------------------------------------------------------------------------
(* Claims about POST /api/generate.                                        *)

GenerateHandled ==
    /\ request.endpoint = "/api/generate"
    /\ response.status # 0

GenerateRole == Get(request.json, "role", None)

GenerateKeywords == Get(request.json, "keywords", None)

ProviderSucceeded ==
    /\ AI_PROVIDER \in {"openai", "anthropic"}
    /\ ai_client # "None"
    /\ provider.outcome = "object"

\* C6 (SpecGenerate): a request with a non-empty role is answered with 200
\* whatever the provider does, and with the deterministic fallback content
\* of the request whenever the provider call did not succeed.
C6_ProviderFailureFallsBack ==
    (GenerateHandled /\ Truthy(GenerateRole)) =>
        /\ response.status = 200
        /\ ~ProviderSucceeded =>
               response.json = generate_mock_content(ResumeRequest(request.json))

\* the provider answered with JSON that is no object, and the caller got
\* the fallback content
C6_Witness ==
    /\ GenerateHandled
    /\ Truthy(GenerateRole)
    /\ ai_client = "openai"
    /\ provider.outcome = "not an object"
    /\ probe.provider_calls = 1
    /\ response.status = 200

\* the requests served so far, each with its response
Served ==
    ToSet(log) \cup (IF response.status # 0
                     THEN {[json |-> request.json, response |-> response]}
                     ELSE {})

\* C7 (SpecGenerateSeq): with no provider configured, two requests with the
\* same GenerationRequest fields get the same content, whatever was served
\* between them.
C7_SameRequestSameContent ==
    \A a \in Served : \A b \in Served :
        ResumeRequest(a.json) = ResumeRequest(b.json) => a.response = b.response

\* the request served two requests ago comes again, after a different one,
\* and gets the same content
C7_Witness ==
    /\ Len(log) = 2
    /\ log[1].json = request.json
    /\ log[2].json # request.json
    /\ response.status = 200
    /\ response = log[1].response

SameButLevel(a, b) ==
    [ResumeRequest(a.json) EXCEPT !.experience_level = S("mid")]
        = [ResumeRequest(b.json) EXCEPT !.experience_level = S("mid")]

FourLevels == {S("junior"), S("mid"), S("senior"), S("executive")}

\* C8 (SpecGenerateSeq): for the same role, keywords and industry the levels
\* junior, mid, senior and executive give pairwise distinct summaries, and a
\* level outside the four gives exactly the output of level mid.
C8_LevelsDistinctAndUnknownIsMid ==
    \A a \in Served : \A b \in Served :
        SameButLevel(a, b) =>
            LET la == ResumeRequest(a.json).experience_level
                lb == ResumeRequest(b.json).experience_level
            IN  /\ (la \in FourLevels /\ lb \in FourLevels /\ la # lb) =>
                       a.response.json.summary # b.response.json.summary
                /\ (la \notin FourLevels /\ lb = S("mid")) =>
                       a.response.json = b.response.json

\* level "lead" was served after level mid and got the same output
C8_Witness ==
    /\ log # <<>>
    /\ SameButLevel(log[Len(log)], [json |-> request.json])
    /\ ResumeRequest(log[Len(log)].json).experience_level = S("mid")
    /\ ResumeRequest(request.json).experience_level = S("lead")
    /\ response.status = 200
    /\ response.json = log[Len(log)].response.json

FallbackServed ==
    /\ GenerateHandled
    /\ response.status = 200
    /\ ~ProviderSucceeded

\* the first up to 5 comma-separated keywords, trimmed, in input order
LeadingKeywords(keywords) ==
    LET pieces == SplitOn(keywords, ",")
    IN  Take([i \in 1..Len(pieces) |-> Strip(pieces[i])], 5)

\* the skills returned when no keywords are supplied
SkillsWithoutKeywords ==
    <<S("Python"), S("JavaScript"), S("React"), S("Node.js"), S("AWS"), S("Docker"),
      S("Git"), S("Agile"), S("Leadership"), S("Communication")>>

\* C9 as stated (SpecGenerate): with keywords supplied the skills are the
\* first up to 5 keywords followed by the whole list that is returned when
\* no keywords are supplied.
C9_KeywordsThenWholeBaseList ==
    (FallbackServed /\ Truthy(GenerateKeywords)) =>
        response.json.skills = LeadingKeywords(GenerateKeywords) \o SkillsWithoutKeywords

\* C9 amended (SpecGenerate): with keywords supplied the skills are the
\* first up to 5 comma-separated keywords (trimmed, in input order,
\* duplicates kept) followed by the first 5 entries of the list that is
\* returned in full when no keywords are supplied; "Go,Docker" gives a list
\* whose first two entries are "Go" and "Docker".
C9_KeywordsThenFirst5OfBaseList ==
    /\ (FallbackServed /\ Truthy(GenerateKeywords)) =>
           response.json.skills =
               LeadingKeywords(GenerateKeywords) \o Take(SkillsWithoutKeywords, 5)
    /\ (FallbackServed /\ ~Truthy(GenerateKeywords)) =>
           response.json.skills = SkillsWithoutKeywords
    /\ (FallbackServed /\ GenerateKeywords = <<"Go", ",", "Docker">>) =>
           /\ response.json.skills[1] = S("Go")
           /\ response.json.skills[2] = S("Docker")

\* six keywords: the first five, then five base skills
C9_Witness ==
    /\ FallbackServed
    /\ GenerateKeywords = CommaList(6)
    /\ response.json.skills =
           <<S("Go"), S("Docker"), S("SQL"), S("Rust"), S("Java"),
             S("Python"), S("JavaScript"), S("React"), S("Node.js"), S("AWS")>>

-----------------------------------------------------------------------------
(* POST /api/export/pdf                                                    *)

\* {{ v }}: nothing for an undefined name, "None" for None
Shown(v) == IF v = None THEN S("None") ELSE v

RECURSIVE ForEach(_, _, _)
ForEach(items, before, after) ==
    IF items = <<>> THEN <<>>
    ELSE S(before) \o Shown(Head(items)) \o S(after) \o ForEach(Tail(items), before, after)

RECURSIVE Joined(_, _)
Joined(items, sep) ==
    IF items = <<>> THEN <<>>
    ELSE IF Len(items) = 1 THEN Shown(Head(items))
    ELSE Shown(Head(items)) \o S(sep) \o Joined(Tail(items), sep)

Segment(seg, data) ==
    CASE seg.kind = "text" -> S(seg.text)
      [] seg.kind = "var" -> Shown(Get(data, seg.name, <<>>))
      [] seg.kind = "for" -> ForEach(Get(data, seg.name, <<>>), seg.before, seg.after)
      [] seg.kind = "join" -> Joined(Get(data, seg.name, <<>>), seg.sep)

\* line 462: Template(template).render(**data)
RECURSIVE Render(_, _)
Render(template, data) ==
    IF template = <<>> THEN <<>>
    ELSE Segment(Head(template), data) \o Render(Tail(template), data)

\* line 459: RESUME_TEMPLATES.get(template_name, RESUME_TEMPLATES['modern'])
TemplateLookupStrict(template_name) ==
    IF template_name \in DOMAIN RESUME_TEMPLATES
    THEN Return(RESUME_TEMPLATES[template_name])
    ELSE Raise

TemplateLookup(template_name) ==
    IF template_name \in DOMAIN RESUME_TEMPLATES
    THEN Return(RESUME_TEMPLATES[template_name])
    ELSE Return(RESUME_TEMPLATES[S("modern")])

\* line 462: a for loop or a join over None raises; over an undefined name
\* it gives nothing
RenderRaises(template, data) ==
    \E i \in 1..Len(template) :
        /\ template[i].kind \in {"for", "join"}
        /\ Get(data, template[i].name, <<>>) = NoneList

\* lines 464-478: the converter when it is installed, the page when it is not
ConvertOrPageOnFailure(html_content) ==
    IF HTML /\ conversion # "raises"
    THEN [status |-> 200, mimetype |-> "application/pdf", pdf_of |-> html_content]
    ELSE [status |-> 200, mimetype |-> "text/html", body |-> html_content]

ConvertOrPage(html_content) ==
    IF HTML
    THEN IF conversion = "raises"
         THEN Error(500, "Failed to export PDF")
         ELSE [status |-> 200, mimetype |-> "application/pdf", pdf_of |-> html_content]
    ELSE [status |-> 200, mimetype |-> "text/html", body |-> html_content]

\* lines 453-478
export_pdf(data) ==
    LET template_name == Get(data, "template", S("modern"))
        template == TemplateLookup(template_name)
    IN  IF template.raised
        THEN [response |-> Error(500, "Failed to export PDF"),
              probe |-> [rendered |-> FALSE]]
        ELSE IF RenderRaises(template.value, data)
        THEN [response |-> Error(500, "Failed to export PDF"),
              probe |-> [rendered |-> FALSE]]
        ELSE
        LET html_content == Render(template.value, data)
        IN  [response |-> ConvertOrPage(html_content),
             probe |-> [rendered |-> TRUE, html_content |-> html_content]]

ExportPdfRegistering ==
    /\ request.endpoint = "/api/export/pdf"
    /\ response = NoResponse
    /\ LET r == export_pdf(request.json)
           template_name == Get(request.json, "template", S("modern"))
       IN  /\ response' = r.response
           /\ probe' = r.probe
           /\ RESUME_TEMPLATES' =
                  IF template_name \in DOMAIN RESUME_TEMPLATES
                  THEN RESUME_TEMPLATES
                  ELSE (template_name :> RESUME_TEMPLATES[S("modern")]) @@ RESUME_TEMPLATES
    /\ UNCHANGED <<AI_PROVIDER, ai_client, HTML, request, provider, conversion, log>>

ExportPdf ==
    /\ request.endpoint = "/api/export/pdf"
    /\ response = NoResponse
    /\ LET r == export_pdf(request.json) IN Reply(r.response, r.probe)

ExportFields ==
    {[name |-> n, email |-> S("ada@example.org"), phone |-> S("555-0100"),
      location |-> l, summary |-> S("Engineer."), experience_bullets |-> b, skills |-> k] :
        n \in {S("Ada Lovelace"), <<>>},
        l \in {S("London"), None},
        b \in SeqsUpTo({S("Led a team"), S("Built an API")}, MaxBullets),
        k \in SeqsUpTo({S("Go"), S("SQL")}, MaxExportSkills)}
      \cup {[name |-> S("Ada Lovelace")],
            [summary |-> S("Engineer."), skills |-> <<S("Go"), S("SQL")>>]}

TemplateNames == {S("modern"), S("classic"), S("fancy"), S("Modern"), <<>>, None}

ExportBodies ==
    ExportFields \cup {[template |-> t] @@ f : t \in TemplateNames, f \in ExportFields}

InitExport ==
    /\ ProviderStart
    /\ ai_client = "None"
    /\ HTML \in BOOLEAN
    /\ conversion \in IF HTML THEN {"pdf", "raises"} ELSE {"not called"}
    /\ Idle
    /\ provider = NoProviderCall
    /\ request \in {[endpoint |-> "/api/export/pdf", json |-> b] : b \in ExportBodies}

NextExport == ExportPdf

SpecExport == InitExport /\ [][NextExport]_vars

-----------------------------------------------------------------------------
(* Claims about POST /api/export/pdf, checked under SpecExport.            *)

ExportHandled ==
    /\ request.endpoint = "/api/export/pdf"
    /\ response.status # 0

UnknownTemplate ==
    /\ "template" \in DOMAIN request.json
    /\ request.json.template \notin {S("modern"), S("classic")}

AsModern(data) == [data EXCEPT !.template = S("modern")]

\* C10: with a template identifier that is not in the registry the rendered
\* HTML, and with it the response, is that of the same request with template
\* "modern"; the identifier raises no error (the only error left is a
\* converter that throws, as it does for "modern").
C10_UnknownTemplateRendersAsModern ==
    (ExportHandled /\ UnknownTemplate) =>
        /\ probe.rendered
        /\ probe.html_content = Render(modern, AsModern(request.json))
        /\ response = export_pdf(AsModern(request.json)).response
        /\ response.status # 200 => (HTML /\ conversion = "raises")

\* template "fancy", no converter: the modern page with the fields
C10_Witness ==
    /\ ExportHandled
    /\ Get(request.json, "template", S("modern")) = S("fancy")
    /\ Get(request.json, "experience_bullets", <<>>) = <<S("Led a team"), S("Built an API")>>
    /\ Get(request.json, "skills", <<>>) = <<S("Go"), S("SQL")>>
    /\ response.status = 200
    /\ response.mimetype = "text/html"
    /\ response.body = Render(modern, request.json)

\* C12 (SpecGenerate): every JSON body whose role is absent, null or empty
\* is answered with 400, and neither the provider nor the deterministic
\* generator is invoked for it.
C12_NoRoleAnswers400 ==
    (GenerateHandled /\ ~Truthy(GenerateRole)) =>
        /\ response.status = 400
        /\ probe.provider_calls = 0
        /\ ~probe.generated

-----------------------------------------------------------------------------
(* POST /api/export/pdf with fields that do not render: a null list.       *)

NullListFields ==
    {[name |-> S("Ada Lovelace"), skills |-> NoneList],
     [name |-> S("Ada Lovelace"), experience_bullets |-> NoneList,
      skills |-> <<S("Go"), S("SQL")>>]}

ExportAnyBodies ==
    ExportBodies
      \cup NullListFields
      \cup {[template |-> t] @@ f : t \in TemplateNames, f \in NullListFields}

InitExportAny ==
    /\ ProviderStart
    /\ ai_client = "None"
    /\ HTML \in BOOLEAN
    /\ conversion \in IF HTML THEN {"pdf", "raises"} ELSE {"not called"}
    /\ Idle
    /\ provider = NoProviderCall
    /\ request \in {[endpoint |-> "/api/export/pdf", json |-> b] : b \in ExportAnyBodies}

SpecExportAny == InitExportAny /\ [][NextExport]_vars

PageReturned ==
    /\ response.status = 200
    /\ response.mimetype = "text/html"

PdfReturned ==
    /\ response.status = 200
    /\ response.mimetype = "application/pdf"

\* C11 (SpecExportAny): the rendered page is returned as text/html only when
\* no converter is installed; with a converter the response is the PDF or,
\* when rendering or conversion throws, 500 "Failed to export PDF".
C11_PageOnlyWithoutConverter ==
    ExportHandled =>
        /\ PageReturned => ~HTML
        /\ HTML =>
            \/ PdfReturned /\ probe.rendered /\ conversion # "raises"
            \/ /\ response = Error(500, "Failed to export PDF")
               /\ ~probe.rendered \/ conversion = "raises"

\* a converter is installed and throws: 500, not the page
C11_Witness ==
    /\ ExportHandled
    /\ HTML
    /\ conversion = "raises"
    /\ probe.rendered
    /\ response = Error(500, "Failed to export PDF")

-----------------------------------------------------------------------------
(* POST /api/extract.                                                      *)

Literal(c) == Between(Class(FALSE, FALSE, {c}), 1, 1)

\* line 621
email_pattern ==
    <<AtLeast(Class(TRUE, TRUE, {".", "_", "%", "+", "-"}), 1),
      Literal("@"),
      AtLeast(Class(TRUE, TRUE, {".", "-"}), 1),
      Literal("."),
      AtLeast(Class(TRUE, FALSE, {}), 2)>>

\* line 627
phone_pattern ==
    <<Optional(Class(FALSE, FALSE, {"+"})),
      Optional(Class(FALSE, FALSE, {"("})),
      Between(Class(FALSE, TRUE, {}), 1, 3),
      Optional(Class(FALSE, FALSE, {")"})),
      Optional(Class(FALSE, FALSE, {"-", "."} \cup Whitespace)),
      Optional(Class(FALSE, FALSE, {"("})),
      Between(Class(FALSE, TRUE, {}), 1, 4),
      Optional(Class(FALSE, FALSE, {")"})),
      Optional(Class(FALSE, FALSE, {"-", "."} \cup Whitespace)),
      Between(Class(FALSE, TRUE, {}), 1, 4),
      Optional(Class(FALSE, FALSE, {"-", "."} \cup Whitespace)),
      Between(Class(FALSE, TRUE, {}), 1, 9)>>

\* lines 620-630: the match, or the "" the field starts with
Found(pat, content) ==
    LET match == re_search(pat, content)
    IN  IF match = None THEN <<>> ELSE match

\* lines 633-636
IsNameLine(line) ==
    /\ Strip(line) # <<>>
    /\ StrLen(Strip(line)) < 50
    /\ ~\E marker \in {"@", "http", "www"} : Contains(line, marker)

ExtractName(lines) ==
    LET found == {i \in 1..Len(lines) : IsNameLine(lines[i])}
    IN  IF found = {} THEN <<>>
        ELSE Strip(lines[CHOOSE i \in found : \A j \in found : i <= j])

\* line 639
summary_keywords == {"summary", "objective", "profile", "about"}

\* line 651
skills_keywords == {"skills", "technologies", "competencies", "expertise"}

\* lines 641 and 653
HasKeyword(line, keywords) == \E keyword \in keywords : Contains(Lower(line), keyword)

\* the first line with a keyword, 0 when there is none
FirstWithKeyword(lines, keywords) ==
    LET found == {i \in 1..Len(lines) : HasKeyword(lines[i], keywords)}
    IN  IF found = {} THEN 0 ELSE CHOOSE i \in found : \A j \in found : i <= j

NonEmpty(line) == line # <<>>

\* lines 643-647: of the 3 lines after line i, those that are not blank
SummaryLines(lines, i) ==
    SelectSeq(Map(SubSeq(lines, i + 1, Min(i + 3, Len(lines))), Strip), NonEmpty)

\* lines 640-648
SectionSummary(lines) ==
    LET i == FirstWithKeyword(lines, summary_keywords)
    IN  IF i = 0 THEN <<>> ELSE Slice(JoinWith(SummaryLines(lines, i), " "), 500)

IsSkill(piece) == 10 < StrLen(piece) /\ StrLen(piece) < 30

\* lines 652-659
SectionSkills(lines) ==
    LET i == FirstWithKeyword(lines, skills_keywords)
        skills_text == JoinWith(SubSeq(lines, i + 1, Min(i + 4, Len(lines))), " ")
        potential_skills == SplitOnAny(skills_text, {",", ";", "|"})
    IN  IF i = 0 THEN <<>>
        ELSE Take(SelectSeq(Map(potential_skills, Strip), IsSkill), 15)

\* lines 662-663
SummaryOrFirstWords(summary, content) ==
    IF ~Truthy(summary) THEN JoinWith(Take(Split(content), 100), " ") ELSE summary

\* lines 606-665
BasicExtraction(content) ==
    LET lines == SplitOn(content, "\n")
    IN  [name |-> ExtractName(lines),
         title |-> <<>>,
         email |-> Found(email_pattern, content),
         phone |-> Found(phone_pattern, content),
         location |-> <<>>,
         summary |-> SummaryOrFirstWords(SectionSummary(lines), content),
         skills |-> SectionSkills(lines),
         experience |-> <<>>,
         education |-> <<>>]

\* lines 572-599: the body the provider's answer parses to
ParsedAnswer == IF provider.outcome = "object" THEN provider.body ELSE JsonNull

\* lines 562-669
extract_from_document(data) ==
    LET content == IF IsObject(data) THEN Get(data, "content", <<>>) ELSE None
        asked == ai_client # "None" /\ AI_PROVIDER = "openai"
        calls == IF asked THEN 1 ELSE 0
        asked_with == IF asked THEN Slice(content, 3000) ELSE None
    IN  IF ~IsObject(data)
        THEN [response |-> Error(500, "Failed to extract information from document"),
              probe |-> [provider_calls |-> 0, asked_with |-> None, heuristics |-> FALSE]]
        ELSE IF ~Truthy(content)
        THEN [response |-> Error(400, "No content provided"),
              probe |-> [provider_calls |-> 0, asked_with |-> None, heuristics |-> FALSE]]
        ELSE IF asked /\ provider.outcome \in {"object", "not an object"}
        THEN [response |-> [status |-> 200, json |-> ParsedAnswer],
              probe |-> [provider_calls |-> calls, asked_with |-> asked_with,
                         heuristics |-> FALSE]]
        ELSE [response |-> [status |-> 200, json |-> BasicExtraction(content)],
              probe |-> [provider_calls |-> calls, asked_with |-> asked_with,
                         heuristics |-> TRUE]]

ExtractFromDocument ==
    /\ request.endpoint = "/api/extract"
    /\ response = NoResponse
    /\ LET r == extract_from_document(request.json)
       IN  Reply(r.response, r.probe)

Email == <<"ada", "@", "example", ".", "org">>

Phone == <<"5", "5", "5", "-", "0", "1", "0", "0">>

ExtractLines ==
    {<<>>,
     <<"John", " ", "Doe">>,
     <<"Profile">>,
     <<"Since", " ", "2", "0", "1", "9">>,
     Email,
     Phone,
     <<"Skills">>,
     <<"Observability", ",", " ", "Kubernetes">>}

LongLine == [i \in 1..10 |-> "Curriculum..."]

LongTexts ==
    {<<"Summary", "\n", "Curriculum...", "\n", "Vitae...", "\n", "short">>,
     <<"Summary", "\n", "\n", "John", "\n", "Doe", "\n", "Engineer", "\n", "x">>,
     LongLine \o <<"\n">> \o Email,
     <<"Profiles", "\n", "Engineer", " ", "Since", " ">> \o Phone \o <<" ">> \o Email}

ExtractContents ==
    {JoinWith(ls, "\n") : ls \in SeqsUpTo(ExtractLines, MaxExtractLines)} \cup LongTexts

ExtractBodies ==
    {[content |-> c] : c \in ExtractContents \cup {None}}
      \cup {[filename |-> S("cv.txt")], JsonNull}

InitExtract ==
    /\ ProviderStart
    /\ HTML = FALSE
    /\ Idle
    /\ conversion = "not called"
    /\ provider \in IF ai_client = "None" THEN {NoProviderCall} ELSE ProviderOutcomes
    /\ request \in {[endpoint |-> "/api/extract", json |-> b] : b \in ExtractBodies}

NextExtract == ExtractFromDocument

SpecExtract == InitExtract /\ [][NextExtract]_vars

ExtractHandled ==
    /\ request.endpoint = "/api/extract"
    /\ response.status # 0

ExtractContent ==
    IF IsObject(request.json) THEN Get(request.json, "content", <<>>) ELSE None

HeuristicsAnswered ==
    /\ ExtractHandled
    /\ response.status = 200
    /\ probe.heuristics

\* sub somewhere in s
HasSub(s, sub) ==
    \E i \in 1..(Len(s) - Len(sub) + 1) : SubSeq(s, i, i + Len(sub) - 1) = sub

\* C13 (SpecExtract): on the heuristic path a text with an email address and
\* a phone number gives that email and that phone number, wherever they are
\* and whatever digit groups precede them; a text with neither gives "" for
\* both.
C13_EmailAndPhoneAreThoseOfTheText ==
    HeuristicsAnswered =>
        /\ (HasSub(ExtractContent, Email) /\ HasSub(ExtractContent, Phone)) =>
               /\ response.json.email = Email
               /\ response.json.phone = Phone
        /\ (~HasSub(ExtractContent, Email) /\ ~HasSub(ExtractContent, Phone)) =>
               /\ response.json.email = <<>>
               /\ response.json.phone = <<>>

ProviderAnswerParsed == provider.outcome \in {"object", "not an object"}

\* C15 (SpecExtract): with non-empty content and a provider client
\* configured, whichever provider it is, the provider is asked exactly once
\* with the first 3000 characters; its parsed JSON is returned when the call
\* succeeds, and the heuristics run only after the call has failed.
C15_ConfiguredProviderIsAskedFirst ==
    (ExtractHandled /\ Truthy(ExtractContent) /\ ai_client # "None") =>
        /\ probe.provider_calls = 1
        /\ probe.asked_with = Slice(ExtractContent, 3000)
        /\ ProviderAnswerParsed =>
               response = [status |-> 200, json |-> ParsedAnswer]
        /\ probe.heuristics => ~ProviderAnswerParsed

\* C16 (SpecExtract): on the heuristic path, when some line contains a
\* summary keyword the summary is the non-empty lines among the 3 after the
\* first such line, joined by blanks and cut to 500 characters; only when no
\* line contains a keyword is it the first 100 tokens of the text.
C16_SummaryIsSectionWhenKeywordFound ==
    HeuristicsAnswered =>
        LET lines == SplitOn(ExtractContent, "\n")
            i == FirstWithKeyword(lines, summary_keywords)
        IN  response.json.summary =
                IF i # 0
                THEN Slice(JoinWith(SummaryLines(lines, i), " "), 500)
                ELSE JoinWith(Take(Split(ExtractContent), 100), " ")

-----------------------------------------------------------------------------
(* Every endpoint, one request after the other.  A request carries what    *)
(* the environment answers while it is served: the clock for /health, the  *)
(* fetch of the page for /.                                                *)

\* lines 335-392
serve_frontend(github) ==
    IF github.outcome = "answered" /\ github.status_code = 200
    THEN [status |-> 200, mimetype |-> "text/html",
          body |-> [i \in 1..Len(github.text) |->
                       IF github.text[i] = "http://localhost:5000"
                       THEN "https://resume-maker-zrbl.onrender.com"
                       ELSE github.text[i]]]
    ELSE [status |-> 200, mimetype |-> "text/html", body |-> S("<Resume Builder API>")]

ServeFrontend ==
    /\ request.endpoint = "/"
    /\ response = NoResponse
    /\ Reply(serve_frontend(request.github), NoProbe)

\* lines 395-402
health_check(now) ==
    [status |-> 200,
     json |-> [status |-> S("healthy"), timestamp |-> now,
               ai_provider |-> AI_PROVIDER, ai_available |-> ai_client # "None"]]

HealthCheck ==
    /\ request.endpoint = "/health"
    /\ response = NoResponse
    /\ Reply(health_check(request.now), NoProbe)

\* lines 433-449
improve_content(data) ==
    IF ~IsObject(data) THEN Error(500, "Failed to improve content")
    ELSE IF ~Truthy(Get(data, "text", <<>>)) THEN Error(400, "Text is required")
    ELSE [status |-> 200, json |-> [improved |-> <<"[Enhanced] ">> \o data.text]]

ImproveContent ==
    /\ request.endpoint = "/api/improve"
    /\ response = NoResponse
    /\ Reply(improve_content(request.json), NoProbe)

\* lines 481-486: the keys of the registry
get_templates ==
    [status |-> 200,
     json |-> [templates |-> DOMAIN RESUME_TEMPLATES, default |-> S("modern")]]

GetTemplates ==
    /\ request.endpoint = "/api/templates"
    /\ response = NoResponse
    /\ Reply(get_templates, NoProbe)

GithubAnswers ==
    {[outcome |-> "raises"],
     [outcome |-> "answered", status_code |-> 200,
      text |-> <<"<html>", "http://localhost:5000", "</html>">>]}

Clock == {1, 2}

AppRequests ==
    {[endpoint |-> "/", github |-> g] : g \in GithubAnswers}
      \cup {[endpoint |-> "/health", now |-> t] : t \in Clock}
      \cup {[endpoint |-> "/api/templates"],
            [endpoint |-> "/api/generate", json |-> [role |-> S("Software Engineer")]],
            [endpoint |-> "/api/improve", json |-> [text |-> S("Led a team")]],
            [endpoint |-> "/api/export/pdf",
             json |-> [template |-> S("fancy"), name |-> S("Ada Lovelace")]],
            [endpoint |-> "/api/suggestions/skills",
             json |-> [role |-> S("Software Engineer"), current_skills |-> <<S("Python")>>]],
            [endpoint |-> "/api/analyze/ats",
             json |-> [text |-> <<"Experience", " ", "Python">>,
                       job_description |-> <<"python", " ", "sql">>]],
            [endpoint |-> "/api/extract",
             json |-> [content |-> <<"John", " ", "Doe", "\n", "Profile">>]]}

\* the next request arrives once the last one is answered
ReceiveAny ==
    /\ response # NoResponse
    /\ log' = Window(Append(log, [request |-> request, response |-> response,
                                  probe |-> probe]))
    /\ request' \in AppRequests
    /\ response' = NoResponse
    /\ probe' = NoProbe
    /\ UNCHANGED <<AI_PROVIDER, ai_client, HTML, RESUME_TEMPLATES, provider, conversion>>

InitApp ==
    /\ ProcessStart
    /\ conversion = IF HTML THEN "pdf" ELSE "not called"
    /\ provider \in IF ai_client = "None"
                    THEN {NoProviderCall}
                    ELSE {[outcome |-> "raises"],
                          [outcome |-> "object", body |-> [summary |-> S("Provider summary")]]}
    /\ Idle
    /\ request \in AppRequests

NextApp ==
    \/ ServeFrontend
    \/ HealthCheck
    \/ GenerateContent
    \/ ImproveContent
    \/ ExportPdf
    \/ GetTemplates
    \/ SuggestSkills
    \/ AnalyzeAts
    \/ ExtractFromDocument
    \/ ReceiveAny

SpecApp == InitApp /\ [][NextApp]_vars

ServedAny ==
    ToSet(log) \cup (IF response.status # 0
                     THEN {[request |-> request, response |-> response, probe |-> probe]}
                     ELSE {})

ProviderFree(served) ==
    "provider_calls" \in DOMAIN served.probe => served.probe.provider_calls = 0

SameRequestSameResponse ==
    \A a \in ServedAny : \A b \in ServedAny :
        (a.request = b.request /\ ProviderFree(a) /\ ProviderFree(b)) =>
            a.response = b.response

=============================================================================
